---- MODULE Spec2Model ----
(***************************************************************************)
(* Model of vlsi_tool_app.py: the Verilog text helpers (module locator,    *)
(* module extractor, port parser), the two Gemini requesters, the diagram  *)
(* renderer and the two Streamlit button handlers.                         *)
(*                                                                         *)
(* Text is a sequence of characters; a character is a one-character        *)
(* string, except the backquote, which is written BQ.  The regular         *)
(* expressions of the source are evaluated on these sequences with         *)
(* Python's leftmost, priority-ordered (backtracking) semantics.           *)
(***************************************************************************)
EXTENDS Integers, Sequences, FiniteSets, TLC

VARIABLES
    pc,                  \* position of the component under analysis
    srcText,             \* full_verilog_text / verilog_text given to the helpers
    modName,             \* module_name given to get_module_code
    names,               \* last result of get_module_names
    code,                \* last result of get_module_code
    hdrText,             \* verilog_text given to get_ports_for_testbench
    hdrName,             \* module_name given to get_ports_for_testbench
    ports,               \* last result of get_ports_for_testbench
    netlist,             \* dict given to create_gate_level_diagram
    diagram,             \* last result of create_gate_level_diagram
    GOOGLE_API_KEY,      \* the credential is set (os.getenv returned a value)
    GOOGLE_AI_AVAILABLE, \* module-level flag computed at start-up
    verilog_code,        \* st.session_state.verilog_code
    selected_module,     \* value of the module selectbox
    reply,               \* reply of the external model consumed by the last action
    result,              \* value returned by the netlist requester in the last action
    tb_code,             \* text returned by the testbench requester in the last action
    shown,               \* what the last action displayed, in order
    trace,               \* the components the last action invoked, in order
    fault,               \* the last action ended in an uncaught exception
    modelCalls           \* calls made to the external model so far

extractVars == <<srcText, modName, names, code>>
portVars == <<hdrText, hdrName, ports>>
renderVars == <<netlist, diagram>>
configVars == <<GOOGLE_API_KEY, GOOGLE_AI_AVAILABLE>>
sessionVars == <<verilog_code, selected_module, reply, result, tb_code, shown, trace,
                 fault, modelCalls>>
vars == <<pc, extractVars, portVars, renderVars, configVars, sessionVars>>

-----------------------------------------------------------------------------
(* Bounds of the analysis *)

\* number of text fragments a source text is assembled from
MaxFrags == 5

\* number of text fragments a module header's port list is assembled from
MaxPortFrags == 5

\* number of gate records of a netlist
MaxGates == 2

\* number of calls to the external model in one session
MaxModelCalls == 2

-----------------------------------------------------------------------------
(* Characters and character classes (Python re, str patterns) *)

BQ == "BQ"
NL == "\n"

\* \s
IsSpace(c) == c \in {" ", "\t", "\n", "\r"}

Letters ==
    {"a","b","c","d","e","f","g","h","i","j","k","l","m","n","o","p","q","r",
     "s","t","u","v","w","x","y","z",
     "A","B","C","D","E","F","G","H","I","J","K","L","M","N","O","P","Q","R",
     "S","T","U","V","W","X","Y","Z"}
Digits == {"0","1","2","3","4","5","6","7","8","9"}

\* \w
IsWord(c) == c \in Letters \cup Digits \cup {"_"}

KwModule == <<"m","o","d","u","l","e">>
KwEndmodule == <<"e","n","d","m","o","d","u","l","e">>

\* the literal w occurs in t at position p
StartsWith(t, p, w) ==
    /\ p >= 1
    /\ p + Len(w) - 1 <= Len(t)
    /\ \A i \in 1..Len(w) : t[p + i - 1] = w[i]

\* length of the longest run of \s starting at p
RECURSIVE SpaceRun(_, _)
SpaceRun(t, p) ==
    IF p <= Len(t) /\ IsSpace(t[p]) THEN 1 + SpaceRun(t, p + 1) ELSE 0

\* length of the longest run of \w starting at p
RECURSIVE WordRun(_, _)
WordRun(t, p) ==
    IF p <= Len(t) /\ IsWord(t[p]) THEN 1 + WordRun(t, p + 1) ELSE 0

\* ^ under re.MULTILINE: start of text or just after a newline
AtLineStart(t, p) == p = 1 \/ (p >= 2 /\ p - 1 <= Len(t) /\ t[p - 1] = NL)

\* first position q >= p at which w occurs, 0 when there is none
RECURSIVE FirstOccurrence(_, _, _)
FirstOccurrence(t, p, w) ==
    IF p + Len(w) - 1 > Len(t) THEN 0
    ELSE IF StartsWith(t, p, w) THEN p
    ELSE FirstOccurrence(t, p + 1, w)

-----------------------------------------------------------------------------
(* get_module_names: re.findall(r'^\s*module\s+(\w+)', text, re.MULTILINE) *)

\* One match attempt of ^\s*module\s+(\w+) anchored at p.  \s* and \s+ are
\* greedy; giving characters back never helps because the next pattern item
\* ('m', then \w) is not whitespace.  \w+ is greedy and last.
NameMatchAt(t, p) ==
    LET a == p + SpaceRun(t, p)
        b == a + Len(KwModule)
        k == SpaceRun(t, b)
        c == b + k
        n == WordRun(t, c)
    IN  IF AtLineStart(t, p) /\ StartsWith(t, a, KwModule) /\ k >= 1 /\ n >= 1
        THEN [ok |-> TRUE, name |-> SubSeq(t, c, c + n - 1), end |-> c + n]
        ELSE [ok |-> FALSE, name |-> <<>>, end |-> p]

\* findall: scan left to right, matches do not overlap
RECURSIVE FindAllNames(_, _)
FindAllNames(t, p) ==
    IF p > Len(t) THEN <<>>
    ELSE LET m == NameMatchAt(t, p)
         IN  IF m.ok THEN <<m.name>> \o FindAllNames(t, m.end)
             ELSE FindAllNames(t, p + 1)

\* the same scan when re.MULTILINE is left out: ^ holds at the start of text only
RECURSIVE FindAllNamesSingleLine(_, _)
FindAllNamesSingleLine(t, p) ==
    IF p > Len(t) THEN <<>>
    ELSE LET m == NameMatchAt(t, p)
         IN  IF m.ok /\ p = 1 THEN <<m.name>> \o FindAllNamesSingleLine(t, m.end)
             ELSE FindAllNamesSingleLine(t, p + 1)

get_module_names_no_multiline(verilog_text) == FindAllNamesSingleLine(verilog_text, 1)

get_module_names(verilog_text) == FindAllNames(verilog_text, 1)

-----------------------------------------------------------------------------
(* get_module_code:                                                        *)
(*   re.compile(r'^\s*module\s+' + re.escape(name) + r'[\s\S]*?endmodule', *)
(*              re.DOTALL | re.MULTILINE).search(text)                     *)

\* the value None
NotFound == [found |-> FALSE, text |-> <<>>]

\* One match attempt anchored at p.  After \s+ comes the escaped name as a
\* literal, with nothing required after it; [\s\S]*? is lazy, so the match
\* ends at the first 'endmodule' at or after the end of the name.  \s+ gives
\* characters back (longest first) only if the name does not follow.
CodeMatchAt(name, t, p) ==
    LET a == p + SpaceRun(t, p)
        b == a + Len(KwModule)
        k == SpaceRun(t, b)
        js == {j \in 1..k :
                  /\ StartsWith(t, b + j, name)
                  /\ FirstOccurrence(t, b + j + Len(name), KwEndmodule) # 0}
    IN  IF AtLineStart(t, p) /\ StartsWith(t, a, KwModule) /\ js # {}
        THEN LET j == CHOOSE x \in js : \A y \in js : y <= x
                 e == FirstOccurrence(t, b + j + Len(name), KwEndmodule)
             IN  [found |-> TRUE, text |-> SubSeq(t, p, e + Len(KwEndmodule) - 1)]
        ELSE NotFound

\* search: the leftmost position at which the pattern matches
RECURSIVE SearchCode(_, _, _)
SearchCode(name, t, p) ==
    IF p > Len(t) THEN NotFound
    ELSE LET m == CodeMatchAt(name, t, p)
         IN  IF m.found THEN m ELSE SearchCode(name, t, p + 1)

get_module_code(module_name, full_verilog_text) ==
    SearchCode(module_name, full_verilog_text, 1)

-----------------------------------------------------------------------------
(* get_ports_for_testbench *)

KwInput == <<"i","n","p","u","t">>
KwOutput == <<"o","u","t","p","u","t">>
KwInout == <<"i","n","o","u","t">>
KwReg == <<"r","e","g">>
KwWire == <<"w","i","r","e">>

\* case folding of re.IGNORECASE, on the letters of the modelled texts
Fold(c) ==
    CASE c = "M" -> "m"
      [] c = "O" -> "o"
      [] c = "D" -> "d"
      [] c = "U" -> "u"
      [] c = "L" -> "l"
      [] c = "E" -> "e"
      [] c = "X" -> "x"
      [] OTHER -> c

StartsWithCI(t, p, w) ==
    /\ p >= 1
    /\ p + Len(w) - 1 <= Len(t)
    /\ \A i \in 1..Len(w) : Fold(t[p + i - 1]) = Fold(w[i])

\* module_regex = module\s+NAME\s*#?\s*\(([\s\S]*?)\);  (DOTALL | IGNORECASE)
\* One attempt anchored at p; group 1 is the text up to the first ');'.  The
\* items after each \s run ('NAME', '#', '(') are not whitespace, so the runs
\* are taken whole.
HeaderMatchAt(name, t, p) ==
    LET b == p + Len(KwModule)
        k == SpaceRun(t, b)
        c == b + k + Len(name)
        d == c + SpaceRun(t, c)
        e == IF d <= Len(t) /\ t[d] = "#" THEN d + 1 ELSE d
        f == e + SpaceRun(t, e)
        g == FirstOccurrence(t, f + 1, <<")", ";">>)
    IN  IF /\ StartsWithCI(t, p, KwModule)
           /\ k >= 1
           /\ StartsWithCI(t, b + k, name)
           /\ f <= Len(t) /\ t[f] = "("
           /\ g # 0
        THEN [found |-> TRUE, text |-> SubSeq(t, f + 1, g - 1)]
        ELSE NotFound

RECURSIVE SearchHeader(_, _, _)
SearchHeader(name, t, p) ==
    IF p > Len(t) THEN NotFound
    ELSE LET m == HeaderMatchAt(name, t, p)
         IN  IF m.found THEN m ELSE SearchHeader(name, t, p + 1)

\* port_regex =
\*   (input|output)\s*(?:reg|wire)?\s*(\[[^\]]+\])?\s*([\w\s,]+?)
\*   (?=(?:,?\s*(?:input|output|inout|$)))

\* [\w\s,]
IsNameChar(c) == IsWord(c) \/ IsSpace(c) \/ c = ","

\* $ without re.MULTILINE: the end of the text, or just before a final newline
AtEnd(t, r) == r = Len(t) + 1 \/ (r = Len(t) /\ t[r] = NL)

\* the lookahead ,?\s*(?:input|output|inout|$) succeeds at s
Lookahead(t, s) ==
    \E c \in {0, 1} :
        /\ c = 1 => (s <= Len(t) /\ t[s] = ",")
        /\ \E k \in 0..SpaceRun(t, s + c) :
              LET r == s + c + k
              IN  \/ StartsWith(t, r, KwInput)
                  \/ StartsWith(t, r, KwOutput)
                  \/ StartsWith(t, r, KwInout)
                  \/ AtEnd(t, r)

NoPortMatch == [ok |-> FALSE, width |-> <<>>, pnames |-> <<>>, end |-> 0]

\* length of the shortest run of [\w\s,] from s, at least n long, after which
\* the lookahead succeeds; 0 when there is none
RECURSIVE LazyNamesLen(_, _, _)
LazyNamesLen(t, s, n) ==
    IF s + n - 1 > Len(t) \/ ~IsNameChar(t[s + n - 1]) THEN 0
    ELSE IF Lookahead(t, s + n) THEN n
    ELSE LazyNamesLen(t, s, n + 1)

\* ([\w\s,]+?) then the lookahead, from s: lazy, the shortest run that works
NamesFrom(t, s, width) ==
    LET n == LazyNamesLen(t, s, 1)
    IN  IF n = 0 THEN NoPortMatch
        ELSE [ok |-> TRUE, width |-> width,
              pnames |-> SubSeq(t, s, s + n - 1), end |-> s + n]

\* the first alternative when it matches, the second otherwise
OrElse(first, second) == IF first.ok THEN first ELSE second

\* \s* then the names: greedy, whitespace is given back one character at a
\* time, from k characters down to none
RECURSIVE SpaceThenNamesFrom(_, _, _, _)
SpaceThenNamesFrom(t, q, k, width) ==
    IF k < 0 THEN NoPortMatch
    ELSE OrElse(NamesFrom(t, q + k, width), SpaceThenNamesFrom(t, q, k - 1, width))

SpaceThenNames(t, q, width) == SpaceThenNamesFrom(t, q, SpaceRun(t, q), width)

\* end (exclusive) of \[[^\]]+\] at q, 0 when it does not match
WidthEnd(t, q) ==
    IF q <= Len(t) /\ t[q] = "[" /\ FirstOccurrence(t, q + 1, <<"]">>) >= q + 2
    THEN FirstOccurrence(t, q + 1, <<"]">>) + 1
    ELSE 0

\* the rest of the pattern after a width that ends (exclusive) at w
AfterWidth(t, q, w) ==
    IF w # 0 THEN SpaceThenNames(t, w, SubSeq(t, q, w - 1)) ELSE NoPortMatch

\* (\[[^\]]+\])? then the rest: the group is tried first, then skipped
WidthThenNames(t, q) ==
    OrElse(AfterWidth(t, q, WidthEnd(t, q)), SpaceThenNames(t, q, <<>>))

RECURSIVE SpaceThenWidthFrom(_, _, _)
SpaceThenWidthFrom(t, q, k) ==
    IF k < 0 THEN NoPortMatch
    ELSE OrElse(WidthThenNames(t, q + k), SpaceThenWidthFrom(t, q, k - 1))

SpaceThenWidth(t, q) == SpaceThenWidthFrom(t, q, SpaceRun(t, q))

\* length of reg or wire at q, 0 when neither is there
NetTypeLen(t, q) ==
    IF StartsWith(t, q, KwReg) THEN Len(KwReg)
    ELSE IF StartsWith(t, q, KwWire) THEN Len(KwWire) ELSE 0

AfterNetType(t, q, l) == IF l # 0 THEN SpaceThenWidth(t, q + l) ELSE NoPortMatch

\* (?:reg|wire)? then the rest: the group is tried first, then skipped
NetTypeThenWidth(t, q) ==
    OrElse(AfterNetType(t, q, NetTypeLen(t, q)), SpaceThenWidth(t, q))

RECURSIVE SpaceThenNetTypeFrom(_, _, _)
SpaceThenNetTypeFrom(t, q, k) ==
    IF k < 0 THEN NoPortMatch
    ELSE OrElse(NetTypeThenWidth(t, q + k), SpaceThenNetTypeFrom(t, q, k - 1))

SpaceThenNetType(t, q) == SpaceThenNetTypeFrom(t, q, SpaceRun(t, q))

\* length of the direction keyword (input|output) at p, 0 when none is there
DirectionLen(t, p) ==
    IF StartsWith(t, p, KwInput) THEN Len(KwInput)
    ELSE IF StartsWith(t, p, KwOutput) THEN Len(KwOutput) ELSE 0

\* a match with group 1 filled in
WithDirection(m, ptype) ==
    [ok |-> m.ok, ptype |-> ptype, width |-> m.width, pnames |-> m.pnames,
     end |-> m.end]

PortMatchAfter(t, p, l) ==
    IF l = 0 THEN WithDirection(NoPortMatch, <<>>)
    ELSE WithDirection(SpaceThenNetType(t, p + l), SubSeq(t, p, p + l - 1))

\* one attempt of port_regex anchored at p; group 1 is 'input' or 'output'
PortMatchAt(t, p) == PortMatchAfter(t, p, DirectionLen(t, p))

\* port_regex.findall(ports_text + "\n"): scan left to right, matches do not
\* overlap
RECURSIVE FindAllPorts(_, _)
RECURSIVE FindPortsAfter(_, _, _)
FindPortsAfter(t, p, m) ==
    IF m.ok THEN <<m>> \o FindAllPorts(t, m.end) ELSE FindAllPorts(t, p + 1)

FindAllPorts(t, p) ==
    IF p > Len(t) THEN <<>> ELSE FindPortsAfter(t, p, PortMatchAt(t, p))

\* str.strip()
RECURSIVE LStrip(_)
LStrip(t) == IF t # <<>> /\ IsSpace(Head(t)) THEN LStrip(Tail(t)) ELSE t

RECURSIVE RStrip(_)
RStrip(t) ==
    IF t # <<>> /\ IsSpace(t[Len(t)]) THEN RStrip(SubSeq(t, 1, Len(t) - 1)) ELSE t

Strip(t) == RStrip(LStrip(t))

\* str.split(',')
RECURSIVE SplitComma(_, _)
SplitComma(t, acc) ==
    IF t = <<>> THEN <<acc>>
    ELSE IF Head(t) = "," THEN <<acc>> \o SplitComma(Tail(t), <<>>)
    ELSE SplitComma(Tail(t), Append(acc, Head(t)))

\* [name.strip() for name in p_names.strip().split(',') if name.strip()]
PortNames(p_names) ==
    LET parts == SplitComma(Strip(p_names), <<>>)
    IN  SelectSeq([i \in 1..Len(parts) |-> Strip(parts[i])], LAMBDA n : n # <<>>)

\* f"{p_width.strip() if p_width else ''} {name}".strip()
PortInfo(width, name) == Strip(Strip(width) \o <<" ">> \o name)

\* the entries one match adds to the list of the given direction: each name
\* goes to inputs when group 1 is literally 'input', to outputs otherwise
PortsOfMatch(m, dir, ns) ==
    IF (dir = "input") = (m.ptype = KwInput)
    THEN [i \in 1..Len(ns) |-> PortInfo(m.width, ns[i])]
    ELSE <<>>

\* the loop over the matches
RECURSIVE CollectPorts(_, _)
CollectPorts(ms, dir) ==
    IF ms = <<>> THEN <<>>
    ELSE PortsOfMatch(Head(ms), dir, PortNames(Head(ms).pnames))
         \o CollectPorts(Tail(ms), dir)

PortsOfMatches(ms) ==
    [inputs |-> CollectPorts(ms, "input"), outputs |-> CollectPorts(ms, "output")]

PortsOfHeader(module_match) ==
    IF ~module_match.found THEN [inputs |-> <<>>, outputs |-> <<>>]
    ELSE PortsOfMatches(FindAllPorts(module_match.text \o <<NL>>, 1))

get_ports_for_testbench(module_name, verilog_text) ==
    PortsOfHeader(SearchHeader(module_name, verilog_text, 1))

-----------------------------------------------------------------------------
(* create_gate_level_diagram *)

\* dict.get(key, default)
Get(d, key, default) == IF key \in DOMAIN d THEN d[key] ELSE default

\* str.upper() and str.lower(), on the type tags of the modelled netlists
Upper(str) ==
    CASE str \in {"and", "And", "AND"} -> "AND"
      [] str \in {"or", "Or", "OR"} -> "OR"
      [] str \in {"gate", "GATE"} -> "GATE"
      [] OTHER -> str

Lower(str) ==
    CASE str \in {"and", "And", "AND"} -> "and"
      [] str \in {"or", "Or", "OR"} -> "or"
      [] str \in {"gate", "GATE"} -> "gate"
      [] OTHER -> str

\* the Digraph before any node or edge is added
EmptyDiagram == [nodes |-> <<>>, edges |-> <<>>, junctions |-> {}]

\* gate_type = gate.get("type", "gate").upper()
GateType(gate) == Upper(Get(gate, "type", "gate"))

\* gate_id = f"gate_{i}_{gate_type.lower()}", i counted from 0 by enumerate
GateId(i, gate) == "gate_" \o ToString(i - 1) \o "_" \o Lower(GateType(gate))

\* if gate_output: the key is present and the string is not empty
HasOutput(gate) == "output" \in DOMAIN gate /\ gate["output"] # ""

\* c.node(port, label=port, shape='ellipse', ...) for each port of a cluster
ClusterNodes(portSeq, kind) ==
    [i \in 1..Len(portSeq) |-> [id |-> portSeq[i], label |-> portSeq[i], kind |-> kind]]

\* dot.node(gate_id, label=gate_type, ...) for each gate
GateNodes(gates) ==
    [i \in 1..Len(gates) |->
        [id |-> GateId(i, gates[i]), label |-> GateType(gates[i]), kind |-> "gate"]]

\* the edges one gate adds: gate -> output first, then input -> gate, in order
GateEdges(i, gate) ==
    LET gid == GateId(i, gate)
        ins == Get(gate, "inputs", <<>>)
    IN  (IF HasOutput(gate) THEN <<[tail |-> gid, head |-> gate["output"]]>> ELSE <<>>)
        \o [j \in 1..Len(ins) |-> [tail |-> ins[j], head |-> gid]]

RECURSIVE AllGateEdges(_, _)
AllGateEdges(gates, i) ==
    IF i > Len(gates) THEN <<>>
    ELSE GateEdges(i, gates[i]) \o AllGateEdges(gates, i + 1)

Range(f) == {f[i] : i \in DOMAIN f}

\* all_nodes after the three loops
AllNodes(nl) ==
    LET gates == Get(nl, "gates", <<>>)
    IN  Range(Get(nl, "inputs", <<>>)) \cup Range(Get(nl, "outputs", <<>>))
        \cup {gates[i]["output"] : i \in {j \in 1..Len(gates) : HasOutput(gates[j])}}
        \cup UNION {Range(Get(gates[i], "inputs", <<>>)) : i \in 1..Len(gates)}

\* any(gate.get("output") == node for gate in netlist.get("gates", []))
IsGateOutput(nl, node) ==
    LET gates == Get(nl, "gates", <<>>)
    IN  \E i \in 1..Len(gates) : "output" \in DOMAIN gates[i] /\ gates[i]["output"] = node

\* a last loop that draws a point for every wire that is no declared port
JunctionsIgnoringDrivers(nl) ==
    {node \in AllNodes(nl) :
        /\ node \notin Range(Get(nl, "inputs", <<>>))
        /\ node \notin Range(Get(nl, "outputs", <<>>))}

\* the last loop: the wires drawn as a point (shape='point')
Junctions(nl) ==
    {node \in AllNodes(nl) :
        /\ node \notin Range(Get(nl, "inputs", <<>>))
        /\ node \notin Range(Get(nl, "outputs", <<>>))
        /\ ~IsGateOutput(nl, node)}

\* the error branch
ErrorDiagram(nl) ==
    [nodes |-> <<[id |-> "error", label |-> "Error:\n" \o nl["error"], kind |-> "error"]>>,
     edges |-> <<>>,
     junctions |-> {}]

\* the branch that draws the netlist
NetlistDiagram(nl) ==
    [nodes |-> ClusterNodes(Get(nl, "inputs", <<>>), "input")
               \o ClusterNodes(Get(nl, "outputs", <<>>), "output")
               \o GateNodes(Get(nl, "gates", <<>>)),
     edges |-> AllGateEdges(Get(nl, "gates", <<>>), 1),
     junctions |-> Junctions(nl)]

\* a renderer that never looks for the "error" key
create_gate_level_diagram_unchecked(nl) == NetlistDiagram(nl)

create_gate_level_diagram(nl) ==
    IF "error" \in DOMAIN nl THEN ErrorDiagram(nl) ELSE NetlistDiagram(nl)

-----------------------------------------------------------------------------
(* Replies of the external model and json.loads *)

\* {"inputs":["n"],"outputs":["y"],"gates":[{"type":"and","output":"y","inputs":["n"]}]}
JsonNetlist ==
    <<"{","\"","i","n","p","u","t","s","\"",":","[","\"","n","\"","]",",",
    "\"","o","u","t","p","u","t","s","\"",":","[","\"","y","\"","]",",",
    "\"","g","a","t","e","s","\"",":","[","{","\"","t","y","p","e","\"",":",
    "\"","a","n","d","\"",",","\"","o","u","t","p","u","t","\"",":","\"",
    "y","\"",",","\"","i","n","p","u","t","s","\"",":","[","\"","n","\"",
    "]","}","]","}">>

\* {"inputs":[],"outputs":[],"gates":[]}
JsonEmptyNetlist ==
    <<"{","\"","i","n","p","u","t","s","\"",":","[","]",",","\"","o","u","t",
    "p","u","t","s","\"",":","[","]",",","\"","g","a","t","e","s","\"",":",
    "[","]","}">>

\* {}
JsonEmptyObject ==
    <<"{","}">>

\* {"gates":[]}
JsonGatesOnly ==
    <<"{","\"","g","a","t","e","s","\"",":","[","]","}">>

\* {"error":"X"}
JsonErrorObject ==
    <<"{","\"","e","r","r","o","r","\"",":","\"","X","\"","}">>

\* []
JsonArray ==
    <<"[","]">>

\* 42
JsonNumber ==
    <<"4","2">>

\* null
JsonNull ==
    <<"n","u","l","l">>

\* nope
TextProse ==
    <<"n","o","p","e">>

\* {"inputs":[
TextTruncated ==
    <<"{","\"","i","n","p","u","t","s","\"",":","[">>

\* BQBQBQjson
FenceJson ==
    <<BQ,BQ,BQ,"j","s","o","n">>

\* BQBQBQ
Fence ==
    <<BQ,BQ,BQ>>

\* BQBQBQverilog
FenceVerilog ==
    <<BQ,BQ,BQ,"v","e","r","i","l","o","g">>

\* Python values a requester can return: a dict (its items in .dict), or a
\* value of another type
PyDict(d) == [kind |-> "dict", dict |-> d]
PyOther(kind) == [kind |-> kind, dict |-> <<>>]

\* json.loads on the modelled texts (surrounding whitespace is allowed by the
\* JSON grammar); any other text raises json.JSONDecodeError
JsonLoads(text) ==
    LET t == Strip(text)
    IN  CASE t = JsonNetlist ->
               [ok |-> TRUE,
                value |-> PyDict([inputs |-> <<"n">>, outputs |-> <<"y">>,
                                  gates |-> <<[type |-> "and", output |-> "y",
                                               inputs |-> <<"n">>]>>])]
          [] t = JsonEmptyNetlist ->
               [ok |-> TRUE,
                value |-> PyDict([inputs |-> <<>>, outputs |-> <<>>, gates |-> <<>>])]
          [] t = JsonEmptyObject -> [ok |-> TRUE, value |-> PyDict(<<>>)]
          [] t = JsonGatesOnly -> [ok |-> TRUE, value |-> PyDict([gates |-> <<>>])]
          [] t = JsonErrorObject -> [ok |-> TRUE, value |-> PyDict([error |-> "X"])]
          [] t = JsonArray -> [ok |-> TRUE, value |-> PyOther("list")]
          [] t = JsonNumber -> [ok |-> TRUE, value |-> PyOther("int")]
          [] t = JsonNull -> [ok |-> TRUE, value |-> PyOther("NoneType")]
          [] OTHER -> [ok |-> FALSE, value |-> PyOther("NoneType")]

\* str.lstrip(chars) and str.rstrip(chars): chars is a set of characters
RECURSIVE LStripChars(_, _)
LStripChars(t, chars) ==
    IF t # <<>> /\ Head(t) \in chars THEN LStripChars(Tail(t), chars) ELSE t

RECURSIVE RStripChars(_, _)
RStripChars(t, chars) ==
    IF t # <<>> /\ t[Len(t)] \in chars
    THEN RStripChars(SubSeq(t, 1, Len(t) - 1), chars) ELSE t

\* a reply of generate_content: the call raises, or response.text is a text
Raised == [raised |-> TRUE, text |-> <<>>]
Text(t) == [raised |-> FALSE, text |-> t]
NoReply == [raised |-> FALSE, text |-> <<>>]

-----------------------------------------------------------------------------
(* ask_gemini_for_gate_level_netlist and generate_testbench_with_gemini *)

ConfigErrorRecord ==
    PyDict([error |-> "Google AI is not configured. Please set GOOGLE_API_KEY in .env."])

ResponseErrorRecord ==
    PyDict([error |-> "Failed to get a valid JSON response from the AI."])

\* response.text.strip().lstrip("```json").rstrip("```")
JsonTextOf(text) ==
    RStripChars(LStripChars(Strip(text), {BQ, "j", "s", "o", "n"}), {BQ})

\* .value is the returned object, .called tells whether generate_content ran
ask_gemini_for_gate_level_netlist(available, module_code, rep) ==
    IF ~available THEN [value |-> ConfigErrorRecord, called |-> FALSE]
    ELSE IF rep.raised THEN [value |-> ResponseErrorRecord, called |-> TRUE]
    ELSE LET parsed == JsonLoads(JsonTextOf(rep.text))
         IN  [value |-> IF parsed.ok THEN parsed.value ELSE ResponseErrorRecord,
              called |-> TRUE]

\* "// Google AI is not configured. Please set GOOGLE_API_KEY in .env."
ConfigErrorComment == <<"/", "/", " ", "c", "o", "n", "f", "i", "g">>

\* "// Gemini API call for testbench failed: ..."
CallFailedComment == <<"/", "/", " ", "f", "a", "i", "l", "e", "d">>

\* code.split('```verilog')[1].split('```')[0].strip()
FencedVerilog(codeText) ==
    LET a == FirstOccurrence(codeText, 1, FenceVerilog)
        rest == SubSeq(codeText, a + Len(FenceVerilog), Len(codeText))
        b == FirstOccurrence(rest, 1, Fence)
    IN  Strip(IF b = 0 THEN rest ELSE SubSeq(rest, 1, b - 1))

generate_testbench_with_gemini(available, module_name, inputs, outputs, rep) ==
    IF ~available THEN [value |-> ConfigErrorComment, called |-> FALSE]
    ELSE IF rep.raised THEN [value |-> CallFailedComment, called |-> TRUE]
    ELSE LET codeText == Strip(rep.text)
         IN  [value |-> IF FirstOccurrence(codeText, 1, FenceVerilog) # 0
                        THEN FencedVerilog(codeText) ELSE codeText,
              called |-> TRUE]

-----------------------------------------------------------------------------
(* The two button handlers *)

\* "error" in netlist, for the Python value v: a TypeError for a value that is
\* no container
InRaises(v) == v.kind \in {"int", "NoneType"}
HasErrorKey(v) == v.kind = "dict" /\ "error" \in DOMAIN v.dict

NoOutcome ==
    [shown |-> <<>>, trace |-> <<>>, fault |-> FALSE, result |-> PyOther("NoneType"),
     chart |-> EmptyDiagram, called |-> FALSE]

\* the part of the diagram handler that follows a successful extraction
DiagramAfterExtraction(available, module_code, rep) ==
    LET asked == ask_gemini_for_gate_level_netlist(available, module_code, rep)
        v == asked.value
        t == <<"get_module_code", "ask_gemini_for_gate_level_netlist">>
             \o (IF asked.called THEN <<"generate_content">> ELSE <<>>)
        base == [NoOutcome EXCEPT !.result = v, !.called = asked.called, !.trace = t]
    IN  IF InRaises(v) THEN [base EXCEPT !.fault = TRUE]
        ELSE IF HasErrorKey(v) THEN [base EXCEPT !.shown = <<"error:synthesis">>]
        ELSE IF v.kind # "dict"
             THEN \* netlist.get raises AttributeError inside the renderer
                  [base EXCEPT !.shown = <<"success">>, !.fault = TRUE,
                               !.trace = t \o <<"create_gate_level_diagram">>]
        ELSE [base EXCEPT !.shown = <<"success", "chart", "download", "json">>,
                          !.trace = t \o <<"create_gate_level_diagram">>,
                          !.chart = create_gate_level_diagram(v.dict)]

\* a handler without the check of GOOGLE_AI_AVAILABLE
DiagramHandlerUnguarded(available, selected, vcode, rep) ==
    LET module_code == get_module_code(selected, vcode)
    IN  IF module_code.found
        THEN DiagramAfterExtraction(available, module_code.text, rep)
        ELSE [NoOutcome EXCEPT !.shown = <<"error:extract">>,
                               !.trace = <<"get_module_code">>]

\* a handler that asks for the netlist whether or not the module was extracted
DiagramHandlerNoStop(available, selected, vcode, rep) ==
    IF ~available THEN [NoOutcome EXCEPT !.shown = <<"error:config">>]
    ELSE DiagramAfterExtraction(available, get_module_code(selected, vcode).text, rep)

\* body of: if st.button("Generate Diagram ...")
DiagramHandler(available, selected, vcode, rep) ==
    IF ~available THEN [NoOutcome EXCEPT !.shown = <<"error:config">>]
    ELSE LET module_code == get_module_code(selected, vcode)
         IN  IF module_code.found
             THEN DiagramAfterExtraction(available, module_code.text, rep)
             ELSE [NoOutcome EXCEPT !.shown = <<"error:extract">>,
                                    !.trace = <<"get_module_code">>]

NoTbOutcome == [shown |-> <<>>, trace |-> <<>>, tb |-> <<>>, called |-> FALSE]

\* the handler once the ports are parsed and the requester has returned
TestbenchOutcome(io, tb) ==
    [shown |-> (IF io.inputs = <<>> /\ io.outputs = <<>>
                THEN <<"warning:ports">> ELSE <<>>)
               \o <<"success", "code", "download">>,
     trace |-> <<"get_ports_for_testbench", "generate_testbench_with_gemini">>
               \o (IF tb.called THEN <<"generate_content">> ELSE <<>>),
     tb |-> tb.value,
     called |-> tb.called]

TestbenchAfterPorts(available, selected, io, rep) ==
    TestbenchOutcome(io, generate_testbench_with_gemini(available, selected, io.inputs,
                                                        io.outputs, rep))

\* body of: if st.button("Generate Testbench ...")
TestbenchHandler(available, selected, vcode, rep) ==
    IF ~available THEN [NoTbOutcome EXCEPT !.shown = <<"error:config">>]
    ELSE TestbenchAfterPorts(available, selected,
                             get_ports_for_testbench(selected, vcode), rep)

-----------------------------------------------------------------------------
(* Source texts given to the helpers: up to MaxFrags fragments *)

SrcFrags ==
    { KwModule \o <<" ", "a">>,       \* "module a"
      KwModule,                       \* "module"
      <<"b">>,
      <<" ">> \o KwEndmodule,         \* " endmodule"
      <<NL>>,
      <<" ">> }

RECURSIVE Concat(_)
Concat(fs) == IF fs = <<>> THEN <<>> ELSE Head(fs) \o Concat(Tail(fs))

SeqsUpTo(S, n) == UNION {[1..k -> S] : k \in 0..n}

SrcTexts == {Concat(fs) : fs \in SeqsUpTo(SrcFrags, MaxFrags)}

ModNames == {<<"a">>, <<"a","b">>, <<"b">>}

-----------------------------------------------------------------------------
(* The helpers applied to a source text *)

\* the variables of the components a specification leaves aside
ExtractIdle == srcText = <<>> /\ modName = <<>> /\ names = <<>> /\ code = NotFound
PortsIdle ==
    hdrText = <<>> /\ hdrName = <<>> /\ ports = [inputs |-> <<>>, outputs |-> <<>>]
RenderIdle == netlist = <<>> /\ diagram = EmptyDiagram
SessionIdle ==
    /\ GOOGLE_API_KEY = FALSE /\ GOOGLE_AI_AVAILABLE = FALSE
    /\ verilog_code = <<>> /\ selected_module = <<>>
    /\ reply = NoReply /\ result = PyOther("NoneType") /\ tb_code = <<>>
    /\ shown = <<>> /\ trace = <<>> /\ fault = FALSE /\ modelCalls = 0

ExtractInit ==
    /\ pc = "input"
    /\ srcText \in SrcTexts
    /\ modName = <<>>
    /\ names = <<>>
    /\ code = NotFound
    /\ PortsIdle
    /\ RenderIdle
    /\ SessionIdle

Locate ==
    /\ pc = "input"
    /\ names' = get_module_names(srcText)
    /\ pc' = "located"
    /\ UNCHANGED <<srcText, modName, code, portVars, renderVars, configVars, sessionVars>>

Extract ==
    /\ pc = "input"
    /\ \E n \in ModNames :
          /\ modName' = n
          /\ code' = get_module_code(n, srcText)
    /\ pc' = "extracted"
    /\ UNCHANGED <<srcText, names, portVars, renderVars, configVars, sessionVars>>

ExtractNext == Locate \/ Extract

SpecExtract == ExtractInit /\ [][ExtractNext]_vars

-----------------------------------------------------------------------------
(* Module declarations of a text, stated without the scan *)

\* 'module' at k is the first thing on its line: only whitespace lies between
\* the start of the line and k
KeywordLeads(t, k) ==
    /\ StartsWith(t, k, KwModule)
    /\ \E p \in 1..k : AtLineStart(t, p) /\ \A i \in p..(k - 1) : IsSpace(t[i])

\* a declaration: a leading 'module', whitespace, an identifier
IsDecl(t, k) ==
    /\ KeywordLeads(t, k)
    /\ SpaceRun(t, k + Len(KwModule)) >= 1
    /\ WordRun(t, k + Len(KwModule) + SpaceRun(t, k + Len(KwModule))) >= 1

DeclName(t, k) ==
    LET c == k + Len(KwModule) + SpaceRun(t, k + Len(KwModule))
    IN  SubSeq(t, c, c + WordRun(t, c) - 1)

DeclPositions(t) == {k \in 1..Len(t) : IsDecl(t, k)}

Reserved == {KwModule, KwEndmodule}

\* every declaration of the text names its module with an identifier that is
\* not a keyword
WellFormedDecls(t) == \A k \in DeclPositions(t) : DeclName(t, k) \notin Reserved

RECURSIVE Ascending(_)
Ascending(S) ==
    IF S = {} THEN <<>>
    ELSE LET m == CHOOSE x \in S : \A y \in S : x <= y
         IN  <<m>> \o Ascending(S \ {m})

\* the declared names in declaration order
DeclNames(t) ==
    LET ks == Ascending(DeclPositions(t))
    IN  [i \in 1..Len(ks) |-> DeclName(t, ks[i])]

\* a declaration wherever it stands on its line: 'module' as a whole word,
\* whitespace, an identifier
IsDeclAnywhere(t, k) ==
    /\ StartsWith(t, k, KwModule)
    /\ (k = 1 \/ ~IsWord(t[k - 1]))
    /\ SpaceRun(t, k + Len(KwModule)) >= 1
    /\ WordRun(t, k + Len(KwModule) + SpaceRun(t, k + Len(KwModule))) >= 1

DeclPositionsAnywhere(t) == {k \in 1..Len(t) : IsDeclAnywhere(t, k)}

DeclNamesAnywhere(t) ==
    LET ks == Ascending(DeclPositionsAnywhere(t))
    IN  [i \in 1..Len(ks) |-> DeclName(t, ks[i])]

\* C8 as stated: for a text with N well-formed module declarations (each named
\* by an identifier that is no keyword) the locator returns exactly N names,
\* those of the declarations, in declaration order.
C8_Original ==
    (/\ pc = "located"
     /\ \A k \in DeclPositionsAnywhere(srcText) : DeclName(srcText, k) \notin Reserved) =>
        /\ Len(names) = Cardinality(DeclPositionsAnywhere(srcText))
        /\ names = DeclNamesAnywhere(srcText)

\* C8 as amended: the locator returns exactly the names of the declarations
\* that begin their line (only whitespace before 'module'), one per
\* declaration, in declaration order and without deduplication, when each of
\* them is named by an identifier that is no keyword; it returns the empty
\* sequence when the text has no such declaration.
C8_LocatorReturnsDeclaredNames ==
    (pc = "located" /\ WellFormedDecls(srcText)) =>
        /\ names = DeclNames(srcText)
        /\ Len(names) = Cardinality(DeclPositions(srcText))

\* a text that declares the same name twice, located as two entries
C8_Witness ==
    /\ pc = "located"
    /\ WellFormedDecls(srcText)
    /\ Cardinality(DeclPositions(srcText)) = 2
    /\ Len(names) = 2
    /\ names[1] = names[2]

\* C7: the extractor returns the not-found value when the text has no
\* declaration of exactly the requested name; otherwise it returns the text from
\* the first declaration of that name (with the whitespace leading its line)
\* through the nearest following 'endmodule', inclusive.
C7_ExtractorMatchesExactName ==
    pc = "extracted" =>
        LET ds == {k \in DeclPositions(srcText) : DeclName(srcText, k) = modName}
        IN  IF ds = {} THEN code = NotFound
            ELSE LET k == CHOOSE x \in ds : \A y \in ds : x <= y
                     e == FirstOccurrence(srcText, k + Len(KwModule), KwEndmodule)
                 IN  e # 0 =>
                        /\ code.found
                        /\ \E p \in 1..k :
                              /\ \A i \in p..(k - 1) : IsSpace(srcText[i])
                              /\ code.text = SubSeq(srcText, p, e + Len(KwEndmodule) - 1)

-----------------------------------------------------------------------------
(* The port parser applied to a module header *)

PortFrags ==
    { KwInput \o <<" ">>,
      KwOutput \o <<" ">>,
      KwInout \o <<" ">>,
      KwWire \o <<" ">>,
      <<"[", "1", ":", "0", "]">>,
      <<"a">>,
      <<"b">>,
      <<",">> }

PortLists == {Concat(fs) : fs \in SeqsUpTo(PortFrags, MaxPortFrags)}

\* module m(<port list>);
HeaderOf(portList) == KwModule \o <<" ", "m", "(">> \o portList \o <<")", ";">>

HdrNames == {<<"m">>, <<"M">>, <<"x">>}

PortsInit ==
    /\ pc = "input"
    /\ hdrText \in {HeaderOf(pl) : pl \in PortLists}
    /\ hdrName = <<>>
    /\ ports = [inputs |-> <<>>, outputs |-> <<>>]
    /\ ExtractIdle
    /\ RenderIdle
    /\ SessionIdle

ParsePorts ==
    /\ pc = "input"
    /\ \E n \in HdrNames :
          /\ hdrName' = n
          /\ ports' = get_ports_for_testbench(n, hdrText)
    /\ pc' = "parsed"
    /\ UNCHANGED <<hdrText, extractVars, renderVars, configVars, sessionVars>>

PortsNext == ParsePorts

SpecPorts == PortsInit /\ [][PortsNext]_vars

PortKeywords == {KwInput, KwOutput, KwInout, KwReg, KwWire}

\* the word that follows 'inout' and whitespace at k
InoutNameAt(t, k) ==
    LET c == k + Len(KwInout) + SpaceRun(t, k + Len(KwInout))
    IN  SubSeq(t, c, c + WordRun(t, c) - 1)

\* the names a header declares with the direction inout
InoutPortNames(t) ==
    {InoutNameAt(t, k) : k \in {j \in 1..Len(t) :
        /\ StartsWith(t, j, KwInout)
        /\ (j = 1 \/ ~IsWord(t[j - 1]))
        /\ SpaceRun(t, j + Len(KwInout)) >= 1
        /\ InoutNameAt(t, j) # <<>>
        /\ InoutNameAt(t, j) \notin PortKeywords}}

\* C9: for a module header that declares an inout port, the port's name is in
\* the returned outputs and not in the returned inputs.
C9_InoutFoldedIntoOutputs ==
    (pc = "parsed" /\ SearchHeader(hdrName, hdrText, 1).found) =>
        \A nm \in InoutPortNames(hdrText) :
            /\ nm \in Range(ports.outputs)
            /\ nm \notin Range(ports.inputs)

-----------------------------------------------------------------------------
(* The renderer applied to a netlist or an error record *)

\* wire names; the last one is also the identifier the renderer gives gate 0
\* when its type is 'and'
Wires == {"n", "gate_0_and"}

WireLists == {<<>>, <<"n">>, <<"gate_0_and">>, <<"n", "gate_0_and">>}

TypeTags == {"and", "Or"}

\* gate records: the output key may be missing
GateRecords ==
    [type : TypeTags, output : Wires, inputs : WireLists]
    \cup [type : TypeTags, inputs : WireLists]

Netlists == [inputs : WireLists, outputs : WireLists,
             gates : SeqsUpTo(GateRecords, MaxGates)]

ErrorMessages == {"X", "Failed to get a valid JSON response from the AI."}

\* error records: the message alone, or beside netlist fields
ErrorRecords ==
    [error : ErrorMessages]
    \cup [error : ErrorMessages, inputs : {<<"n">>}, outputs : {<<>>},
          gates : {<<>>, <<[type |-> "and", output |-> "n", inputs |-> <<"n">>]>>}]

RenderInit ==
    /\ pc = "input"
    /\ netlist \in Netlists \cup ErrorRecords
    /\ diagram = EmptyDiagram
    /\ ExtractIdle
    /\ PortsIdle
    /\ SessionIdle

Render ==
    /\ pc = "input"
    /\ diagram' = create_gate_level_diagram(netlist)
    /\ pc' = "rendered"
    /\ UNCHANGED <<netlist, extractVars, portVars, configVars, sessionVars>>

RenderNext == Render

SpecRender == RenderInit /\ [][RenderNext]_vars

\* number of entries of a sequence that satisfy a test
Count(sq, Test(_)) == Cardinality({i \in 1..Len(sq) : Test(sq[i])})

\* C4: for an input that carries an "error" field with message X, whatever
\* else it holds, the diagram has exactly one node, its label contains X, and
\* there is no other node (input, output, gate or junction) and no edge.
C4_ErrorRecordIsOneNode ==
    (pc = "rendered" /\ "error" \in DOMAIN netlist) =>
        /\ Len(diagram.nodes) = 1
        /\ diagram.nodes[1].kind = "error"
        /\ \E pre \in {"", "Error:\n"} : diagram.nodes[1].label = pre \o netlist["error"]
        /\ diagram.edges = <<>>
        /\ diagram.junctions = {}

\* an error record that also lists a gate, rendered
C4_Witness ==
    /\ pc = "rendered"
    /\ "error" \in DOMAIN netlist
    /\ "gates" \in DOMAIN netlist
    /\ netlist["gates"] # <<>>
    /\ Len(diagram.nodes) = 1

\* C5: for a netlist that is no error record the diagram has one gate node per
\* gate record, labelled with the uppercased type tag, and for each gate one
\* edge from each listed input wire to the gate's node (one per listing) and one
\* edge from the gate's node to its declared output wire, whatever the wires
\* are called.
C5_GateNodesAndEdges ==
    (pc = "rendered" /\ "error" \notin DOMAIN netlist) =>
        LET gates == netlist["gates"]
        IN  /\ Count(diagram.nodes, LAMBDA nd : nd.kind = "gate") = Len(gates)
            /\ \A i \in 1..Len(gates) :
                  LET gid == GateId(i, gates[i])
                  IN  /\ Count(diagram.nodes,
                               LAMBDA nd : nd.kind = "gate" /\ nd.id = gid
                                           /\ nd.label = Upper(gates[i]["type"])) = 1
                      /\ \A w \in Range(gates[i]["inputs"]) :
                            Count(diagram.edges,
                                  LAMBDA ed : ed.tail = w /\ ed.head = gid)
                            = Count(gates[i]["inputs"], LAMBDA x : x = w)
                      /\ HasOutput(gates[i]) =>
                            Count(diagram.edges,
                                  LAMBDA ed : ed.tail = gid
                                              /\ ed.head = gates[i]["output"]) = 1

\* the wires listed as an input of some gate
GateInputWires(nl) ==
    UNION {Range(Get(nl["gates"][i], "inputs", <<>>)) : i \in 1..Len(nl["gates"])}

IsInputGroupNode(d, w) == \E i \in 1..Len(d.nodes) : d.nodes[i].kind = "input" /\ d.nodes[i].id = w
IsOutputGroupNode(d, w) == \E i \in 1..Len(d.nodes) : d.nodes[i].kind = "output" /\ d.nodes[i].id = w

\* C6 as stated: every wire listed as an input of some gate is an input-group
\* node if and only if it is a declared input, and is otherwise a junction node.
C6_Original ==
    (pc = "rendered" /\ "error" \notin DOMAIN netlist) =>
        \A w \in GateInputWires(netlist) :
            /\ IsInputGroupNode(diagram, w) <=> w \in Range(netlist["inputs"])
            /\ w \notin Range(netlist["inputs"]) => w \in diagram.junctions

\* C6 as amended: every wire listed as an input of some gate is an input-group
\* node if and only if it is a declared input; a wire that is no declared input
\* is a junction node if and only if it is neither a declared output nor the
\* output of some gate, and it is an output-group node when it is a declared
\* output.
C6_WireClassification ==
    (pc = "rendered" /\ "error" \notin DOMAIN netlist) =>
        \A w \in GateInputWires(netlist) :
            /\ IsInputGroupNode(diagram, w) <=> w \in Range(netlist["inputs"])
            /\ w \in Range(netlist["inputs"]) => w \notin diagram.junctions
            /\ w \notin Range(netlist["inputs"]) =>
                  /\ w \in diagram.junctions <=>
                        /\ w \notin Range(netlist["outputs"])
                        /\ ~IsGateOutput(netlist, w)
                  /\ w \in Range(netlist["outputs"]) => IsOutputGroupNode(diagram, w)

\* two gates in a row: the wire between them is driven by the first, read by
\* the second and declared nowhere, and it is drawn as no junction; the second
\* gate also reads an undeclared, undriven wire, which is a junction
C6_Witness ==
    /\ pc = "rendered"
    /\ "error" \notin DOMAIN netlist
    /\ Len(netlist["gates"]) = 2
    /\ netlist["inputs"] = <<>>
    /\ netlist["outputs"] = <<>>
    /\ HasOutput(netlist["gates"][1])
    /\ netlist["gates"][1]["output"] = "n"
    /\ netlist["gates"][2]["inputs"] = <<"n", "gate_0_and">>
    /\ ~IsGateOutput(netlist, "gate_0_and")
    /\ "n" \notin diagram.junctions
    /\ "gate_0_and" \in diagram.junctions

-----------------------------------------------------------------------------
(* The interactive session *)

ModuleA == KwModule \o <<" ", "a">> \o <<" ">> \o KwEndmodule
ModuleAB == KwModule \o <<" ", "a", "b", "(">> \o KwInput \o <<" ", "a", ",", " ">>
            \o KwInout \o <<" ", "b", ")", ";">> \o <<" ">> \o KwEndmodule

\* uploaded files: one module; a declaration that is never closed; two modules,
\* the first with a port list; no module at all
SessionSources ==
    { ModuleA,
      KwModule \o <<" ", "a">>,
      ModuleAB \o <<NL>> \o ModuleA,
      <<" ">> \o KwEndmodule }

JsonBodies ==
    { JsonNetlist, JsonEmptyNetlist, JsonEmptyObject, JsonGatesOnly, JsonErrorObject,
      JsonArray, JsonNumber, JsonNull, TextProse, TextTruncated, <<>> }

\* a body as the model may send it: bare, fenced as json, fenced without a
\* tag, or between blank space
Wrappings(body) ==
    { body,
      FenceJson \o <<NL>> \o body \o <<NL>> \o Fence,
      Fence \o <<NL>> \o body \o <<NL>> \o Fence,
      <<NL>> \o body \o <<" ", NL>> }

NetlistReplies == {Raised} \cup {Text(t) : t \in UNION {Wrappings(b) : b \in JsonBodies}}

TbBody == KwModule \o <<" ", "a", "_", "t", "b", ";">> \o <<" ">> \o KwEndmodule

TestbenchReplies ==
    { Raised,
      Text(TbBody),
      Text(<<" ">> \o FenceVerilog \o <<NL>> \o TbBody \o <<NL>> \o Fence \o <<NL>>),
      Text(TextProse \o <<NL>> \o FenceVerilog \o <<NL>> \o TbBody) }

\* start-up, lines 10-19 and 208-209: the flag is set when the key is set and
\* the import of google.generativeai succeeds
SessionInit ==
    /\ pc = "start"
    /\ GOOGLE_API_KEY \in BOOLEAN
    /\ \E importOk \in BOOLEAN : GOOGLE_AI_AVAILABLE = (GOOGLE_API_KEY /\ importOk)
    /\ verilog_code = <<>>
    /\ selected_module = <<>>
    /\ reply = NoReply
    /\ result = PyOther("NoneType")
    /\ tb_code = <<>>
    /\ shown = <<>>
    /\ trace = <<>>
    /\ fault = FALSE
    /\ modelCalls = 0
    /\ diagram = EmptyDiagram
    /\ netlist = <<>>
    /\ ExtractIdle
    /\ PortsIdle

\* what a rerun of the script shows before any button is handled
PageOf(vcode) ==
    IF vcode = <<>> THEN <<"info:welcome">>
    ELSE IF get_module_names(vcode) = <<>> THEN <<"warning:no_modules">>
    ELSE <<>>

Cleared ==
    /\ reply' = NoReply
    /\ result' = PyOther("NoneType")
    /\ tb_code' = <<>>
    /\ trace' = <<>>
    /\ fault' = FALSE
    /\ diagram' = EmptyDiagram

\* the sidebar uploader: the file replaces the session's text; the selectbox
\* then offers the located names, the first one selected
Upload ==
    /\ \E file \in SessionSources :
          /\ verilog_code' = file
          /\ selected_module' =
                IF get_module_names(file) = <<>> THEN <<>>
                ELSE get_module_names(file)[1]
          /\ shown' = PageOf(file)
    /\ pc' = "upload"
    /\ Cleared
    /\ UNCHANGED <<modelCalls, netlist, configVars, extractVars, portVars>>

\* the selectbox, offered when at least one module was located
SelectModule ==
    /\ get_module_names(verilog_code) # <<>>
    /\ \E i \in 1..Len(get_module_names(verilog_code)) :
          selected_module' = get_module_names(verilog_code)[i]
    /\ pc' = "select"
    /\ shown' = <<>>
    /\ Cleared
    /\ UNCHANGED <<verilog_code, modelCalls, netlist, configVars, extractVars, portVars>>

\* the button of tab 1
ClickDiagram ==
    /\ get_module_names(verilog_code) # <<>>
    /\ modelCalls < MaxModelCalls
    /\ \E rep \in NetlistReplies :
          LET out == DiagramHandler(GOOGLE_AI_AVAILABLE, selected_module,
                                    verilog_code, rep)
          IN  /\ reply' = IF out.called THEN rep ELSE NoReply
              /\ result' = out.result
              /\ shown' = out.shown
              /\ trace' = out.trace
              /\ fault' = out.fault
              /\ diagram' = out.chart
              /\ modelCalls' = modelCalls + (IF out.called THEN 1 ELSE 0)
    /\ pc' = "diagram"
    /\ tb_code' = <<>>
    /\ UNCHANGED <<verilog_code, selected_module, netlist, configVars, extractVars,
                   portVars>>

\* the button of tab 2
ClickTestbench ==
    /\ get_module_names(verilog_code) # <<>>
    /\ modelCalls < MaxModelCalls
    /\ \E rep \in TestbenchReplies :
          LET out == TestbenchHandler(GOOGLE_AI_AVAILABLE, selected_module,
                                      verilog_code, rep)
          IN  /\ reply' = IF out.called THEN rep ELSE NoReply
              /\ tb_code' = out.tb
              /\ shown' = out.shown
              /\ trace' = out.trace
              /\ modelCalls' = modelCalls + (IF out.called THEN 1 ELSE 0)
    /\ pc' = "testbench"
    /\ result' = PyOther("NoneType")
    /\ fault' = FALSE
    /\ diagram' = EmptyDiagram
    /\ UNCHANGED <<verilog_code, selected_module, netlist, configVars, extractVars,
                   portVars>>

\* ask_gemini_for_gate_level_netlist called on its own
CallNetlistRequester ==
    /\ modelCalls < MaxModelCalls
    /\ \E module_code \in {ModuleA, ModuleAB}, rep \in NetlistReplies :
          LET out == ask_gemini_for_gate_level_netlist(GOOGLE_AI_AVAILABLE,
                                                       module_code, rep)
          IN  /\ reply' = IF out.called THEN rep ELSE NoReply
              /\ result' = out.value
              /\ trace' = <<"ask_gemini_for_gate_level_netlist">>
                          \o (IF out.called THEN <<"generate_content">> ELSE <<>>)
              /\ modelCalls' = modelCalls + (IF out.called THEN 1 ELSE 0)
    /\ pc' = "call_netlist"
    /\ shown' = <<>>
    /\ tb_code' = <<>>
    /\ fault' = FALSE
    /\ diagram' = EmptyDiagram
    /\ UNCHANGED <<verilog_code, selected_module, netlist, configVars, extractVars,
                   portVars>>

\* generate_testbench_with_gemini called on its own
CallTestbenchRequester ==
    /\ modelCalls < MaxModelCalls
    /\ \E rep \in TestbenchReplies :
          LET out == generate_testbench_with_gemini(GOOGLE_AI_AVAILABLE, <<"a">>,
                                                    <<<<"a">>>>, <<>>, rep)
          IN  /\ reply' = IF out.called THEN rep ELSE NoReply
              /\ tb_code' = out.value
              /\ trace' = <<"generate_testbench_with_gemini">>
                          \o (IF out.called THEN <<"generate_content">> ELSE <<>>)
              /\ modelCalls' = modelCalls + (IF out.called THEN 1 ELSE 0)
    /\ pc' = "call_testbench"
    /\ shown' = <<>>
    /\ result' = PyOther("NoneType")
    /\ fault' = FALSE
    /\ diagram' = EmptyDiagram
    /\ UNCHANGED <<verilog_code, selected_module, netlist, configVars, extractVars,
                   portVars>>

Next ==
    \/ Upload
    \/ SelectModule
    \/ ClickDiagram
    \/ ClickTestbench
    \/ CallNetlistRequester
    \/ CallTestbenchRequester

Spec == SessionInit /\ [][Next]_vars

-----------------------------------------------------------------------------
(* Properties of the session *)

\* the reply with an optional fenced code-block wrapper removed: an opening
\* fence (with or without the json tag) and a closing fence
DropClosingFence(t) ==
    IF Len(t) >= Len(Fence) /\ StartsWith(t, Len(t) - Len(Fence) + 1, Fence)
    THEN SubSeq(t, 1, Len(t) - Len(Fence)) ELSE t

DropOpeningFence(t) ==
    IF StartsWith(t, 1, FenceJson) THEN SubSeq(t, Len(FenceJson) + 1, Len(t))
    ELSE IF StartsWith(t, 1, Fence) THEN SubSeq(t, Len(Fence) + 1, Len(t))
    ELSE t

Unfence(text) == DropClosingFence(DropOpeningFence(Strip(text)))

\* an object with the three fields inputs, outputs and gates
HasNetlistShape(v) ==
    v.kind = "dict" /\ {"inputs", "outputs", "gates"} \subseteq DOMAIN v.dict

\* the reply parses, once unwrapped, to a netlist of the expected shape
ReplyIsNetlist(rep) ==
    /\ ~rep.raised
    /\ JsonLoads(Unfence(rep.text)).ok
    /\ HasNetlistShape(JsonLoads(Unfence(rep.text)).value)

\* C1: with the credential present, the requester returns an error record
\* whenever the call fails or the reply, once unwrapped, is no valid JSON or is
\* JSON without the three fields inputs, outputs and gates; it returns a value
\* without an 'error' field only for a reply that parses to such a netlist, and
\* it never raises.
C1_RequesterRejectsBadReplies ==
    (pc = "call_netlist" /\ GOOGLE_AI_AVAILABLE) =>
        /\ ~fault
        /\ ~ReplyIsNetlist(reply) => HasErrorKey(result)
        /\ ~HasErrorKey(result) => (ReplyIsNetlist(reply) /\ HasNetlistShape(result))

\* C2: while the credential is absent the external model is never called and no
\* part of an action runs: the two buttons only show the configuration error,
\* and the two requesters called on their own return their error value without
\* calling the model.
C2_NoCallWithoutCredential ==
    ~GOOGLE_API_KEY =>
        /\ modelCalls = 0
        /\ reply = NoReply
        /\ "generate_content" \notin Range(trace)
        /\ pc \in {"diagram", "testbench"} =>
              /\ shown = <<"error:config">>
              /\ trace = <<>>
              /\ ~fault
              /\ diagram = EmptyDiagram
              /\ tb_code = <<>>
        /\ pc = "call_netlist" =>
              /\ HasErrorKey(result)
              /\ result.dict["error"] = ConfigErrorRecord.dict["error"]
              /\ trace = <<"ask_gemini_for_gate_level_netlist">>
        /\ pc = "call_testbench" =>
              /\ tb_code = ConfigErrorComment
              /\ trace = <<"generate_testbench_with_gemini">>

\* the diagram button pressed without a credential, a module being selected
C2_Witness ==
    /\ ~GOOGLE_API_KEY
    /\ pc = "diagram"
    /\ selected_module = <<"a">>
    /\ get_module_code(selected_module, verilog_code).found
    /\ shown = <<"error:config">>

\* C3: in a diagram action the module is extracted first, before the netlist
\* requester, the model or the renderer; when the extractor returns the
\* not-found value nothing else runs and the extraction error is shown.
C3_ExtractionFirstAndStops ==
    (pc = "diagram" /\ GOOGLE_AI_AVAILABLE) =>
        /\ trace # <<>>
        /\ trace[1] = "get_module_code"
        /\ \A i \in 2..Len(trace) : trace[i] # "get_module_code"
        /\ ~get_module_code(selected_module, verilog_code).found =>
              /\ trace = <<"get_module_code">>
              /\ shown = <<"error:extract">>
              /\ reply = NoReply
              /\ diagram = EmptyDiagram
              /\ ~fault

\* the diagram button pressed for a module whose declaration is never closed
C3_Witness ==
    /\ pc = "diagram"
    /\ GOOGLE_AI_AVAILABLE
    /\ selected_module = <<"a">>
    /\ ~get_module_code(selected_module, verilog_code).found
    /\ shown = <<"error:extract">>

\* C10: in a diagram action whose reply is malformed or is not the expected
\* JSON, the failure becomes an error record, the renderer draws that record as
\* a single diagnostic node, something is displayed and the action does not end
\* in an uncaught exception.
C10_BadReplyRenderedAsNode ==
    (/\ pc = "diagram"
     /\ GOOGLE_AI_AVAILABLE
     /\ get_module_code(selected_module, verilog_code).found
     /\ ~reply.raised
     /\ ~ReplyIsNetlist(reply)) =>
        /\ ~fault
        /\ shown # <<>>
        /\ HasErrorKey(result)
        /\ "create_gate_level_diagram" \in Range(trace)
        /\ Len(diagram.nodes) = 1
        /\ diagram.nodes[1].kind = "error"

====
